---- MODULE Spec2Model ----
(***************************************************************************)
(* TasksAI backend: the labeling run of one task                           *)
(* (BackgroundLabelingService.process_task_labeling), the label batch      *)
(* validation and ranking, the embedding sync, and the user's label edits. *)
(*                                                                         *)
(* The relational store is modelled as its committed rows (task,           *)
(* task_labels); every labeling run owns one SQLAlchemy session (sess[r])  *)
(* with its unit of work: loaded attribute values, pending attribute       *)
(* changes, the rows its DELETE statement removed and the rows it added,   *)
(* all invisible to others until its commit.                               *)
(* Confidences are in hundredths (90 is 0.90).                             *)
(***************************************************************************)
EXTENDS Integers, Sequences, FiniteSets, TLC

\* ------------------------------------------------------------------ bounds
\* number of labeling runs dispatched for the task
MaxRuns == 2
\* number of update_label requests
MaxEdits == 1
\* lengths of the messages of the exceptions raised by collaborators
ShortMsg == 20
LongMsg == 600
\* longest batch handed to the ranking on its own
MaxBatchLen == 7
\* most labels of a task handed to the scoring on its own
MaxScoreLabels == 2
MaxTasks == 3         \* rows of tasks a recommendation request finds
MaxTopK == 2          \* largest top_k of a recommendation request
MaxSuggested == 4     \* most suggestions the LLM sends in one reply
MaxUsers == 2         \* registered users
MaxRequests == 3      \* create_task and update_task requests on one task
MaxRegistrations == 2 \* register requests
MaxTokens == 2        \* refresh tokens stored when a login is still taken
MaxEditRequests == 2  \* update_label requests in a row on one batch
MaxOwned == 2         \* rows of tasks when the requests start

\* ------------------------------------------------------- program constants
PrimaryCount == 5
MinLabels == 6
MinCategories == 3
ConfidenceOne == 100
MaxErrorLen == 500
MaxWarningLen == 200
WarningPrefixLen == 36
GeneratePrefixLen == 27
TooFewMsgLen == 49
ValidationMsgLen == 53
MaxAttempts == 3
\* the weights of the match score, in thousandths: 0.4 of the matched share,
\* 0.5 of the average confidence (5 per hundredth), 0.1 per match up to 0.3
PercentageWeight == 400
ConfidenceWeight == 5
BonusPerMatch == 100
BonusCap == 300

Runs == 1..MaxRuns
MsgLens == {ShortMsg, LongMsg}
\* outcome of a call that can raise: 0 is success, n > 0 an exception whose
\* message has n characters
Faults == {0} \cup MsgLens
\* a database statement or commit: success, or an error with a long message
DbFaults == {0, LongMsg}

Min(a, b) == IF a <= b THEN a ELSE b

\* ------------------------------------------------------------ label batches
GeneratedLabel(name, cat, conf) ==
    [label_name |-> name, category |-> cat, confidence |-> conf]

\* six labels, six categories, a tie at the fifth place
BatchA ==
    << GeneratedLabel("home", "location", 90),
       GeneratedLabel("morning", "time", 50),
       GeneratedLabel("focused", "mood", 80),
       GeneratedLabel("quick-5min", "duration", 50),
       GeneratedLabel("work", "category", 70),
       GeneratedLabel("laptop", "tools", 60) >>

\* seven labels, three categories, ties and the extreme confidences 0 and 1
BatchB ==
    << GeneratedLabel("office", "location", 30),
       GeneratedLabel("evening", "time", 100),
       GeneratedLabel("gym", "location", 30),
       GeneratedLabel("weekend", "time", 0),
       GeneratedLabel("low-energy", "energy", 100),
       GeneratedLabel("night", "time", 30),
       GeneratedLabel("store", "location", 30) >>

\* only four labels
BatchShort ==
    << GeneratedLabel("home", "location", 90),
       GeneratedLabel("morning", "time", 80),
       GeneratedLabel("focused", "mood", 70),
       GeneratedLabel("work", "category", 60) >>

\* six labels in two categories
BatchFewCategories ==
    << GeneratedLabel("home", "location", 90),
       GeneratedLabel("office", "location", 80),
       GeneratedLabel("gym", "location", 70),
       GeneratedLabel("morning", "time", 60),
       GeneratedLabel("evening", "time", 50),
       GeneratedLabel("night", "time", 40) >>

\* a confidence above 1
BatchHighConfidence ==
    << GeneratedLabel("home", "location", 90),
       GeneratedLabel("morning", "time", 150),
       GeneratedLabel("focused", "mood", 80),
       GeneratedLabel("quick-5min", "duration", 50),
       GeneratedLabel("work", "category", 70),
       GeneratedLabel("laptop", "tools", 60) >>

\* a confidence below 0
BatchNegativeConfidence ==
    << GeneratedLabel("home", "location", 90),
       GeneratedLabel("morning", "time", 50),
       GeneratedLabel("focused", "mood", 80),
       GeneratedLabel("quick-5min", "duration", 0 - 10),
       GeneratedLabel("work", "category", 70),
       GeneratedLabel("laptop", "tools", 60) >>

\* the responses the LLM collaborator can give, by number
Batches ==
    << BatchA, BatchB, BatchShort, BatchFewCategories,
       BatchHighConfidence, BatchNegativeConfidence >>
BatchIds == DOMAIN Batches

\* ------------------------------------------------- validation and ranking
\* a validation without the category diversity rule
validate_labels_without_diversity(labels) ==
    /\ ~ (Len(labels) < MinLabels)
    /\ \A i \in DOMAIN labels :
          0 <= labels[i].confidence /\ labels[i].confidence <= ConfidenceOne

\* LabelingAgent.validate_labels
validate_labels(labels) ==
    /\ ~ (Len(labels) < MinLabels)
    /\ ~ (Cardinality({labels[i].category : i \in DOMAIN labels}) < MinCategories)
    /\ \A i \in DOMAIN labels :
          0 <= labels[i].confidence /\ labels[i].confidence <= ConfidenceOne

\* x goes behind every label whose confidence is at least its own: the sort
\* is stable and descending, as sorted(..., reverse=True) is
RECURSIVE InsertSorted(_, _)
InsertSorted(s, x) ==
    IF s = << >> THEN << x >>
    ELSE IF Head(s).confidence >= x.confidence
         THEN << Head(s) >> \o InsertSorted(Tail(s), x)
         ELSE << x >> \o s

RECURSIVE sorted_labels(_)
sorted_labels(labels) ==
    IF labels = << >> THEN << >>
    ELSE InsertSorted(sorted_labels(SubSeq(labels, 1, Len(labels) - 1)),
                      labels[Len(labels)])

\* a primary flag that reaches one position too far
is_primary_through_sixth(idx) == idx <= PrimaryCount

\* is_primary=(idx < 5), idx counted from 0
is_primary(idx) == idx < PrimaryCount

\* the TaskLabel rows run r adds for a batch; id stands for the row's
\* autoincremented primary key (unique per run and position)
TaskLabelRows(r, labels) ==
    LET s == sorted_labels(labels)
    IN  { [ id |-> << r, i - 1 >>,
            label_name |-> s[i].label_name,
            label_category |-> s[i].category,
            confidence_score |-> s[i].confidence,
            is_primary |-> is_primary(i - 1),
            is_user_edited |-> FALSE,
            original_label |-> "" ] : i \in DOMAIN s }

\* ------------------------------------------------ calculate_label_match_score
\* Scores are exact fractions num/den; confidences are in hundredths.
\* a field of ExtractedContext that is not set
None == "<None>"

\* ExtractedContext(): every field None, other_labels empty
EmptyContext ==
    [ location |-> None, time_of_day |-> None, energy_level |-> None,
      mood |-> None, duration_available |-> None, other_labels |-> << >> ]

\* a comparison that tells upper case from lower case
lower_kept_as_is(s) == s

\* str.lower() on the strings of the model
lower(s) ==
    CASE s \in { "Home", "HOME" } -> "home"
      [] s = "Morning" -> "morning"
      [] OTHER -> s

\* a comparison that also accepts a label the context string starts
label_matches_prefix(user_label, label_name) ==
    \/ lower(user_label) = lower(label_name)
    \/ lower(user_label) = "home" /\ lower(label_name) = "homework"

\* user_label.lower() == task_label.label_name.lower()
label_matches(user_label, label_name) == lower(user_label) = lower(label_name)

\* if user_context.<field>: user_labels.append(user_context.<field>)
Truthy(field) == field # None /\ field # ""
FieldLabel(field) == IF Truthy(field) THEN << field >> ELSE << >>

\* context strings with other_labels ahead of the five fields
user_labels_others_first(user_context) ==
    user_context.other_labels
    \o FieldLabel(user_context.location)
    \o FieldLabel(user_context.time_of_day)
    \o FieldLabel(user_context.energy_level)
    \o FieldLabel(user_context.mood)
    \o FieldLabel(user_context.duration_available)

\* the user's context strings, the five fields first, then other_labels
user_labels(user_context) ==
    FieldLabel(user_context.location)
    \o FieldLabel(user_context.time_of_day)
    \o FieldLabel(user_context.energy_level)
    \o FieldLabel(user_context.mood)
    \o FieldLabel(user_context.duration_available)
    \o user_context.other_labels

\* the labels of the task a context string matches, in the task's order
MatchedBy(user_label, labels) ==
    SelectSeq(labels, LAMBDA l : label_matches(user_label, l.label_name))

\* matching_labels: the context string once per matching label
RECURSIVE matching_labels(_, _)
matching_labels(context_labels, labels) ==
    IF context_labels = << >> THEN << >>
    ELSE [ i \in 1..Len(MatchedBy(Head(context_labels), labels))
             |-> Head(context_labels) ]
         \o matching_labels(Tail(context_labels), labels)

RECURSIVE SumConfidence(_)
SumConfidence(labels) ==
    IF labels = << >> THEN 0
    ELSE Head(labels).confidence_score + SumConfidence(Tail(labels))

\* weighted_score: the confidence of every matching pair, added up
RECURSIVE weighted_score(_, _)
weighted_score(context_labels, labels) ==
    IF context_labels = << >> THEN 0
    ELSE SumConfidence(MatchedBy(Head(context_labels), labels))
         + weighted_score(Tail(context_labels), labels)

Fraction(n, d) == [num |-> n, den |-> d]
Zero == Fraction(0, 1)
\* comparison of fractions with positive denominators
Less(a, b) == a.num * b.den < b.num * a.den
Same(a, b) == a.num * b.den = b.num * a.den

\* min(0.3, len(matching_labels) * 0.1), in thousandths
match_bonus(matched) == Min(BonusCap, matched * BonusPerMatch)

\* a score made of the average confidence alone
match_score_of_confidence_alone(matched, total, weighted) ==
    Fraction(ConfidenceWeight * weighted, 1000 * matched)

\* min(1.0, match_percentage * 0.4 + avg_confidence * 0.5 + match_bonus) for
\* matched pairs out of total context strings with confidences adding up to
\* weighted: (400 matched^2 + 5 weighted total
\*            + match_bonus total matched) / (1000 total matched)
match_score(matched, total, weighted) ==
    LET n == PercentageWeight * matched * matched
             + ConfidenceWeight * weighted * total
             + match_bonus(matched) * total * matched
        d == 1000 * total * matched
    IN  IF n > d THEN Fraction(d, d) ELSE Fraction(n, d)

\* (match_score, matching_labels) of a task's labels and a context
calculate_label_match_score(labels, user_context) ==
    LET ul == user_labels(user_context)
        ml == matching_labels(ul, labels)
    IN  IF ul = << >> THEN [score |-> Zero, matching_labels |-> << >>]
        ELSE IF ml # << >>
        THEN [ score |-> match_score(Len(ml), Len(ul),
                                     weighted_score(ul, labels)),
               matching_labels |-> ml ]
        ELSE [score |-> Zero, matching_labels |-> << >>]

\* ------------------------------------------------------------------- state
VARIABLES
    task,         \* the committed row of the task (its labeling fields)
    task_labels,  \* the committed rows of task_labels for the task
    vectors,      \* ids of the vectors stored in the Pinecone index
    pc,           \* pc[r]: where run r is in process_task_labeling
    sess,         \* sess[r]: the SQLAlchemy session of run r
    out,          \* out[r]: the LLM response of run r (0: none, else a batch id)
    exc,          \* exc[r]: the exception run r is handling
    attempts,     \* attempts[r]: calls of the embedding collaborator in run r
    before,       \* before[r]: what was stored when run r started (history)
    sync,         \* sync[r]: how the embedding sync of run r went (history)
    ended,        \* ended[r]: what was stored when run r ended (history)
    edits,        \* number of update_label requests served
    generated,    \* a batch handed to the ranking on its own (<< >>: none)
    ranked,       \* the rows the ranking made of it
    scoring,      \* a call of calculate_label_match_score: arguments, result
    store,        \* the rows of tasks, in the order a query returns them
    top_k,        \* the top_k of the recommendation request
    llm,          \* what the LLM collaborator did in the request (history)
    response,     \* the RecommendationResponse of the request
    owned,        \* the tasks of all users, by id
    served,       \* the last request on a task: who asked, what it touched
    present,      \* whether the row of the task is (still) in the database
    users,        \* the rows of the users table
    refresh_tokens, \* the rows of the refresh_tokens table
    reg,          \* reg[k]: the registration request k, where it is
    auth          \* the last login, logout or refresh request and its answer

vars == << task, task_labels, vectors, pc, sess, out, exc, attempts,
           before, sync, ended, edits, generated, ranked,
           scoring, store, top_k, llm, response, owned, served, present,
           users, refresh_tokens, reg, auth >>

\* the variables of the ranking on its own, and those of the labeling runs
rank == << generated, ranked >>
recommendation == << scoring, store, top_k, llm, response >>
scope == << owned, served >>
\* what the labeling runs and the label edits leave alone
existence == << present >>
accounts == << users, refresh_tokens, reg, auth >>
elsewhere == << rank, recommendation, scope, existence, accounts >>
labeling == << task, task_labels, vectors, pc, sess, out, exc, attempts,
               before, sync, ended, edits >>

NoException == [kind |-> "none", len |-> 0]
Exception(kind, len) == [kind |-> kind, len |-> len]
NoError == [kind |-> "none", len |-> 0]

\* Task as create_task leaves it: labeling_status defaults to pending
NewTask ==
    [ labeling_status |-> "pending",
      labeling_attempted_at |-> 0,
      labeling_completed_at |-> 0,
      labeling_error |-> NoError,
      vector_id |-> 0,
      embedding_version |-> "none" ]

\* a session with no transaction and nothing loaded
NewSession ==
    [ txn |-> "none", mem |-> NewTask, dirty |-> {}, loaded |-> FALSE,
      deleted |-> {}, added |-> {} ]

\* history records: what was stored when a run started, and when it ended
\* (at: "returned" or "raised"; cause: the step whose exception it handled)
NotStarted == [task |-> NewTask, labels |-> {}]
NotEnded == [at |-> "no", cause |-> "none", task |-> NewTask, labels |-> {}]
Ended(how, why, t, ls) == [at |-> how, cause |-> why, task |-> t, labels |-> ls]

\* a task just created, no run dispatched yet
NoRun ==
    /\ task = NewTask
    /\ task_labels = {}
    /\ vectors = {}
    /\ present = TRUE
    /\ users = {}
    /\ refresh_tokens = {}
    /\ reg = [k \in 1..MaxRegistrations |->
                 [pc |-> "idle", email |-> "", detail |-> ""]]
    /\ auth = [op |-> "none", user |-> 0, token |-> 0, issued |-> FALSE]
    /\ pc = [r \in Runs |-> "idle"]
    /\ sess = [r \in Runs |-> NewSession]
    /\ out = [r \in Runs |-> 0]
    /\ exc = [r \in Runs |-> NoException]
    /\ attempts = [r \in Runs |-> 0]
    /\ before = [r \in Runs |-> NotStarted]
    /\ sync = [r \in Runs |-> "none"]
    /\ ended = [r \in Runs |-> NotEnded]
    /\ edits = 0

\* nothing handed to the ranking on its own
NoRanking ==
    /\ generated = << >>
    /\ ranked = {}

\* no call of the scoring and no recommendation request yet
NoResult == [score |-> Zero, matching_labels |-> << >>, returned |-> FALSE]
NoScoring == [labels |-> << >>, context |-> EmptyContext, result |-> NoResult]
NoCalls ==
    [ context_failed |-> FALSE, context |-> EmptyContext,
      reasoning_failed |-> {}, suggestions_failed |-> FALSE, suggested |-> 0,
      message_failed |-> FALSE ]
NoResponse ==
    [ returned |-> FALSE, raised |-> FALSE, user_context |-> EmptyContext,
      recommendations |-> << >>, suggestions |-> << >>, message |-> "none" ]
NoRecommendation ==
    /\ scoring = NoScoring
    /\ store = << >>
    /\ top_k = 0
    /\ llm = NoCalls
    /\ response = NoResponse

\* no task of any user and no request on one yet
NoRequest ==
    [ user |-> 0, op |-> "none", task_id |-> 0, touched |-> {}, code |-> 0 ]
NoScope ==
    /\ owned = << >>
    /\ served = NoRequest

Init ==
    /\ NoRun
    /\ NoRanking
    /\ NoRecommendation
    /\ NoScope

\* ------------------------------------------------ the session's unit of work
\* db.query(Task)...first(), or the first read of an expired object: a SELECT
\* opens the transaction; attributes not loaded take the committed values,
\* loaded and pending ones are kept
Query(s) ==
    IF s.loaded THEN [s EXCEPT !.txn = "active"]
    ELSE [s EXCEPT !.txn = "active", !.loaded = TRUE,
                   !.mem = [a \in DOMAIN task |->
                              IF a \in s.dirty THEN s.mem[a] ELSE task[a]]]

\* task.<a> = v: pending unless v is the value that was loaded
SetAttr(s, a, v) ==
    [s EXCEPT !.mem[a] = v,
              !.dirty = IF s.loaded /\ a \notin s.dirty /\ s.mem[a] = v
                        THEN s.dirty ELSE s.dirty \cup {a}]

\* a session that stays usable after an error, its pending work kept
AbortedKeepingPending(s) == [s EXCEPT !.txn = "active"]

\* a statement or a commit raised: the database rolls the transaction back
\* and the session refuses every later statement and commit until
\* db.rollback(), which the code never calls
Aborted(s) == [NewSession EXCEPT !.txn = "aborted"]

\* what db.commit() of session s stores: the UPDATE of the pending attributes
\* and the DELETE and INSERTs of the transaction
FlushedTask(s) ==
    [a \in DOMAIN task |-> IF a \in s.dirty THEN s.mem[a] ELSE task[a]]
\* a commit whose DELETE removed nothing
FlushedLabelsKeepingOld(s) == task_labels \cup s.added

FlushedLabels(s) == (task_labels \ s.deleted) \cup s.added

\* after db.commit() (expire_on_commit) and after db.close(), nothing is
\* loaded and nothing is pending
Expired == NewSession

Running(r) == pc[r] \notin {"idle", "done", "raised"}
Finished(r) == pc[r] \in {"done", "raised"}

\* ----------------------------------------------------- process_task_labeling
\* history is kept for the run that starts and the run before it
Kept(r, h, empty) == [q \in Runs |-> IF q < r - 1 \/ q = r THEN empty ELSE h[q]]

\* A run is dispatched (label_task_background / re_label_task) when the runs
\* before it have ended: db = SessionLocal()
Start(r) ==
    /\ pc[r] = "idle"
    /\ \A q \in Runs : q < r => Finished(q)
    /\ pc' = [pc EXCEPT ![r] = "load"]
    /\ before' = [Kept(r, before, NotStarted) EXCEPT
                     ![r] = [task |-> task, labels |-> task_labels]]
    /\ out' = Kept(r, out, 0)
    /\ sync' = Kept(r, sync, "none")
    /\ ended' = Kept(r, ended, NotEnded)
    /\ UNCHANGED << task, task_labels, vectors, sess, exc, attempts, edits >>
    /\ UNCHANGED elsewhere

\* A run is dispatched while earlier runs may still be in flight
StartOverlapping(r) ==
    /\ pc[r] = "idle"
    /\ \A q \in Runs : q < r => pc[q] # "idle"
    /\ pc' = [pc EXCEPT ![r] = "load"]
    /\ before' = [before EXCEPT ![r] = [task |-> task, labels |-> task_labels]]
    /\ UNCHANGED << task, task_labels, vectors, sess, out, exc, attempts,
                    sync, ended, edits >>
    /\ UNCHANGED elsewhere

\* the exception e is raised in run r: control goes to handler h
Raise(r, h, e) ==
    /\ pc' = [pc EXCEPT ![r] = h]
    /\ exc' = [exc EXCEPT ![r] = e]

\* run r goes on to step p
Goto(r, p) ==
    /\ pc' = [pc EXCEPT ![r] = p]
    /\ exc' = exc

\* run r ends (returns, or lets an exception out): finally db.close()
End(r, how, t, ls) ==
    /\ pc' = [pc EXCEPT ![r] = IF how = "raised" THEN "raised" ELSE "done"]
    /\ exc' = [exc EXCEPT ![r] = NoException]
    /\ attempts' = [attempts EXCEPT ![r] = 0]
    /\ sess' = [sess EXCEPT ![r] = Expired]
    /\ ended' = [ended EXCEPT ![r] = Ended(how, exc[r].kind, t, ls)]

\* a load that goes on whether the row is found or not
LoadTaskWhetherFoundOrNot(r, f) ==
    /\ pc[r] = "load"
    /\ IF f = 0
       THEN sess' = [sess EXCEPT ![r] = Query(@)] /\ Goto(r, "mark")
       ELSE sess' = [sess EXCEPT ![r] = Aborted(@)]
            /\ Raise(r, "except", Exception("load", f))
    /\ UNCHANGED << task, task_labels, vectors, out, attempts, before,
                    sync, ended, edits >>
    /\ UNCHANGED elsewhere

\* task = db.query(Task).filter(Task.id == task_id).first(); if not task:
\* return
LoadTask(r, f) ==
    /\ pc[r] = "load"
    /\ IF f # 0
       THEN /\ sess' = [sess EXCEPT ![r] = Aborted(@)]
            /\ Raise(r, "except", Exception("load", f))
            /\ UNCHANGED << attempts, ended >>
       ELSE IF present
       THEN /\ sess' = [sess EXCEPT ![r] = Query(@)]
            /\ Goto(r, "mark")
            /\ UNCHANGED << attempts, ended >>
       ELSE End(r, "returned", task, task_labels)
    /\ UNCHANGED << task, task_labels, vectors, out, before, sync, edits >>
    /\ UNCHANGED elsewhere

\* a session in which only the attempt is stamped
MarkSessionWithoutStatus(r) == SetAttr(sess[r], "labeling_attempted_at", r)

\* the session after task.labeling_status = IN_PROGRESS;
\* task.labeling_attempted_at = datetime.utcnow() (the time is named after
\* the run)
MarkSession(r) ==
    SetAttr(SetAttr(sess[r], "labeling_status", "in_progress"),
            "labeling_attempted_at", r)

\* lines 48-51: mark the task in progress; db.commit()
MarkInProgress(r, f) ==
    /\ pc[r] = "mark"
    /\ IF f = 0
       THEN /\ task' = FlushedTask(MarkSession(r))
            /\ task_labels' = FlushedLabels(MarkSession(r))
            /\ sess' = [sess EXCEPT ![r] = Expired]
            /\ Goto(r, "input")
       ELSE /\ UNCHANGED << task, task_labels >>
            /\ sess' = [sess EXCEPT ![r] = Aborted(@)]
            /\ Raise(r, "except", Exception("mark", f))
    /\ UNCHANGED << vectors, out, attempts, before, sync, ended, edits >>
    /\ UNCHANGED elsewhere

\* TaskLabelingInput(task_id=task.id, ...): reads the expired task again
BuildInput(r, f) ==
    /\ pc[r] = "input"
    /\ IF f = 0
       THEN sess' = [sess EXCEPT ![r] = Query(@)] /\ Goto(r, "generate")
       ELSE sess' = [sess EXCEPT ![r] = Aborted(@)]
            /\ Raise(r, "except", Exception("input", f))
    /\ UNCHANGED << task, task_labels, vectors, out, attempts, before,
                    sync, ended, edits >>
    /\ UNCHANGED elsewhere

\* LabelingAgent.generate_labels: the call or the parsing raises (b = 0, f the
\* length of the message), or the LLM answers batch b, refused when it has
\* fewer than 6 labels; every exception is wrapped in "Failed to generate
\* labels: ..."
generate_labels(r, b, f) ==
    /\ pc[r] = "generate"
    /\ (b = 0) # (f = 0)
    /\ out' = [out EXCEPT ![r] = b]
    /\ IF b = 0
       THEN Raise(r, "except", Exception("llm", GeneratePrefixLen + f))
       ELSE IF Len(Batches[b]) < MinLabels
       THEN Raise(r, "except",
                  Exception("too_few", GeneratePrefixLen + TooFewMsgLen))
       ELSE Goto(r, "validate")
    /\ UNCHANGED << task, task_labels, vectors, sess, attempts, before,
                    sync, ended, edits >>
    /\ UNCHANGED elsewhere

\* if not validate_labels(labels): raise ValueError(...)
ValidateBatch(r) ==
    /\ pc[r] = "validate"
    /\ IF validate_labels(Batches[out[r]])
       THEN Goto(r, "delete")
       ELSE Raise(r, "except", Exception("validation", ValidationMsgLen))
    /\ UNCHANGED << task, task_labels, vectors, sess, out, attempts, before,
                    sync, ended, edits >>
    /\ UNCHANGED elsewhere

\* db.query(TaskLabel).filter(TaskLabel.task_id == task_id).delete(): removes,
\* inside the transaction, the rows committed when the statement runs
DeleteLabels(r, f) ==
    /\ pc[r] = "delete"
    /\ IF f = 0
       THEN sess' = [sess EXCEPT ![r].deleted = task_labels]
            /\ Goto(r, "persist")
       ELSE sess' = [sess EXCEPT ![r] = Aborted(@)]
            /\ Raise(r, "except", Exception("delete", f))
    /\ UNCHANGED << task, task_labels, vectors, out, attempts, before,
                    sync, ended, edits >>
    /\ UNCHANGED elsewhere

\* a completion that leaves labeling_error as it was
PersistSessionKeepingError(r) ==
    LET s0 == [sess[r] EXCEPT !.added = TaskLabelRows(r, Batches[out[r]])]
        s1 == SetAttr(s0, "labeling_status", "completed")
    IN  SetAttr(s1, "labeling_completed_at", r)

\* the session of run r after lines 73-99: the sorted rows added, status
\* COMPLETED, labeling_completed_at set, labeling_error None
PersistSession(r) ==
    LET s0 == [sess[r] EXCEPT !.added = TaskLabelRows(r, Batches[out[r]])]
        s1 == SetAttr(s0, "labeling_status", "completed")
        s2 == SetAttr(s1, "labeling_completed_at", r)
    IN  SetAttr(s2, "labeling_error", NoError)

\* lines 73-101: add the rows, mark the task completed, db.commit(); a failed
\* commit rolls the whole transaction back, the DELETE included
PersistLabels(r, f) ==
    /\ pc[r] = "persist"
    /\ IF f = 0
       THEN /\ task' = FlushedTask(PersistSession(r))
            /\ task_labels' = FlushedLabels(PersistSession(r))
            /\ sync' = [sync EXCEPT ![r] = "started"]
            /\ sess' = [sess EXCEPT ![r] = Expired]
            /\ Goto(r, "sync")
       ELSE /\ UNCHANGED << task, task_labels, sync >>
            /\ sess' = [sess EXCEPT ![r] = Aborted(@)]
            /\ Raise(r, "except", Exception("persist", f))
    /\ UNCHANGED << vectors, out, attempts, before, ended, edits >>
    /\ UNCHANGED elsewhere

\* ------------------------------------ PineconeService.upsert_task_embedding
\* the embedding sync of run r fails with e: the except clause of line 112
SyncFails(r, e) ==
    /\ sync' = [sync EXCEPT ![r] = "failed"]
    /\ Raise(r, "warn", e)

\* if not task.vector_id: task.vector_id = f"task_{task.id}_{uuid}": reads the
\* task, expired by the commit before; the new id is named after the run
\* that generated it
AssignVectorId(r, f) ==
    /\ pc[r] = "sync"
    /\ IF f = 0
       THEN /\ sess' = [sess EXCEPT ![r] =
                          IF Query(@).mem.vector_id = 0
                          THEN SetAttr(Query(@), "vector_id", r)
                          ELSE Query(@)]
            /\ sync' = sync
            /\ Goto(r, "embed")
       ELSE /\ sess' = [sess EXCEPT ![r] = Aborted(@)]
            /\ SyncFails(r, Exception("sync_load", f))
    /\ UNCHANGED << task, task_labels, vectors, out, attempts, before,
                    ended, edits >>
    /\ UNCHANGED elsewhere

\* an embedding call whose first failure is raised
generate_embedding_without_retry(r, f) ==
    /\ pc[r] = "embed"
    /\ attempts' = [attempts EXCEPT ![r] = @ + 1]
    /\ IF f = 0
       THEN sync' = sync /\ Goto(r, "upsert")
       ELSE SyncFails(r, Exception("embedding", f))
    /\ UNCHANGED << task, task_labels, vectors, sess, out, before, ended,
                    edits >>
    /\ UNCHANGED elsewhere

\* generate_embedding under @retry(stop=stop_after_attempt(3)): one call of
\* the embedding collaborator; the third failure in a row is raised
generate_embedding(r, f) ==
    /\ pc[r] = "embed"
    /\ attempts' = [attempts EXCEPT ![r] = @ + 1]
    /\ IF f = 0
       THEN sync' = sync /\ Goto(r, "upsert")
       ELSE IF attempts[r] + 1 >= MaxAttempts
       THEN SyncFails(r, Exception("embedding", f))
       ELSE UNCHANGED << sync, pc, exc >>
    /\ UNCHANGED << task, task_labels, vectors, sess, out, before, ended,
                    edits >>
    /\ UNCHANGED elsewhere

\* self.index.upsert(vectors=[{"id": task.vector_id, ...}])
IndexUpsert(r, f) ==
    /\ pc[r] = "upsert"
    /\ IF f = 0
       THEN /\ vectors' = vectors \cup {sess[r].mem.vector_id}
            /\ sync' = sync
            /\ Goto(r, "embedded")
       ELSE /\ vectors' = vectors
            /\ SyncFails(r, Exception("upsert", f))
    /\ UNCHANGED << task, task_labels, sess, out, attempts, before, ended,
                    edits >>
    /\ UNCHANGED elsewhere

\* task.embedding_model = ...; task.embedding_version = "v1"; db.commit();
\* when it succeeds the run returns
CommitEmbedding(r, f) ==
    /\ pc[r] = "embedded"
    /\ LET s == SetAttr(sess[r], "embedding_version", "v1")
       IN  IF f = 0
           THEN /\ task' = FlushedTask(s)
                /\ task_labels' = FlushedLabels(s)
                /\ sync' = [sync EXCEPT ![r] = "ok"]
                /\ End(r, "returned", FlushedTask(s), FlushedLabels(s))
           ELSE /\ UNCHANGED << task, task_labels, ended, attempts >>
                /\ sess' = [sess EXCEPT ![r] = Aborted(@)]
                /\ SyncFails(r, Exception("sync_commit", f))
    /\ UNCHANGED << vectors, out, before, edits >>
    /\ UNCHANGED elsewhere

\* ------------------------------------- process_task_labeling, the handlers
\* a warning annotation that carries the whole message
WarningOfWholeMessage(e) ==
    [kind |-> "warning", len |-> WarningPrefixLen + e.len]

\* the warning annotation: "Labels created but Pinecone failed: " and the
\* first 200 characters of the message
WarningOf(e) ==
    [kind |-> "warning", len |-> WarningPrefixLen + Min(e.len, MaxWarningLen)]

\* a warning that also marks the task failed
WarningSessionMarkingFailed(r) ==
    SetAttr(SetAttr(sess[r], "labeling_error", WarningOf(exc[r])),
            "labeling_status", "failed")

\* the session after task.labeling_error = f"Labels created but ..."
WarningSession(r) == SetAttr(sess[r], "labeling_error", WarningOf(exc[r]))

\* except Exception as pinecone_error: task.labeling_error = ...; db.commit().
\* A session whose transaction is aborted refuses the commit; a commit that
\* raises is handled by the outer except clause
RecordWarning(r, f) ==
    /\ pc[r] = "warn"
    /\ sess[r].txn = "aborted" => f # 0
    /\ IF f = 0
       THEN /\ task' = FlushedTask(WarningSession(r))
            /\ task_labels' = FlushedLabels(WarningSession(r))
            /\ End(r, "returned", FlushedTask(WarningSession(r)),
                   FlushedLabels(WarningSession(r)))
       ELSE /\ UNCHANGED << task, task_labels, ended, attempts >>
            /\ sess' = [sess EXCEPT ![r] = Aborted(@)]
            /\ Raise(r, "except", Exception("warn", f))
    /\ UNCHANGED << vectors, out, before, sync, edits >>
    /\ UNCHANGED elsewhere

\* except Exception as e: task = db.query(Task)...first(). The session was
\* not rolled back: when its transaction is aborted the query raises and
\* this exception leaves process_task_labeling
QueryInHandler(r) ==
    /\ pc[r] = "except"
    /\ IF sess[r].txn = "aborted"
       THEN End(r, "raised", task, task_labels)
       ELSE /\ sess' = [sess EXCEPT ![r] = Query(@)]
            /\ Goto(r, "record")
            /\ UNCHANGED << ended, attempts >>
    /\ UNCHANGED << task, task_labels, vectors, out, before, sync, edits >>
    /\ UNCHANGED elsewhere

\* str(e)[:500]
ErrorOf(e) == [kind |-> "error", len |-> Min(e.len, MaxErrorLen)]

\* the session after task.labeling_status = FAILED;
\* task.labeling_error = str(e)[:500]
FailureSession(r) ==
    SetAttr(SetAttr(sess[r], "labeling_status", "failed"),
            "labeling_error", ErrorOf(exc[r]))

\* lines 123-126: record the failure; db.commit() commits whatever the
\* session's transaction holds
RecordFailure(r) ==
    /\ pc[r] = "record"
    /\ task' = FlushedTask(FailureSession(r))
    /\ task_labels' = FlushedLabels(FailureSession(r))
    /\ End(r, "returned", FlushedTask(FailureSession(r)),
           FlushedLabels(FailureSession(r)))
    /\ UNCHANGED << vectors, out, before, sync, edits >>
    /\ UNCHANGED elsewhere

\* ------------------------------------------------------------ update_label
\* the label_name the requests carry, and the rows they address: the first
\* row of a batch (primary) and its sixth (not primary)
EditNames == {"errand"}
EditablePositions == {0, PrimaryCount}

\* the fields a LabelUpdate body sets (model_dump(exclude_unset=True)): the
\* label_name when the request carries one, never original_label nor
\* is_user_edited
LabelUpdate(name) ==
    [ field \in (IF name = None THEN {} ELSE { "label_name" }) |-> name ]

\* a row whose original_label is stored again on every edit
EditedRowStoringEveryTime(row, name) ==
    LET first == [row EXCEPT !.original_label = row.label_name,
                             !.is_user_edited = TRUE]
        update_data == LabelUpdate(name)
    IN  IF "label_name" \in DOMAIN update_data
        THEN [first EXCEPT !.label_name = update_data.label_name]
        ELSE first

\* the row as update_label leaves it: original_label is stored on the first
\* edit only, then the fields of the request are set
EditedRow(row, name) ==
    LET first == IF ~ row.is_user_edited
                 THEN [row EXCEPT !.original_label = row.label_name,
                                  !.is_user_edited = TRUE]
                 ELSE row
        update_data == LabelUpdate(name)
    IN  IF "label_name" \in DOMAIN update_data
        THEN [first EXCEPT !.label_name = update_data.label_name]
        ELSE first

\* PUT /labels/{label_id} with a new label_name, between labeling runs
update_label(row, name) ==
    /\ \A r \in Runs : ~ Running(r)
    /\ edits < MaxEdits
    /\ row \in task_labels
    /\ row.id[2] \in EditablePositions
    /\ task_labels' = (task_labels \ {row}) \cup {EditedRow(row, name)}
    /\ edits' = edits + 1
    /\ UNCHANGED << task, vectors, pc, sess, out, exc, attempts, before,
                    sync, ended >>
    /\ UNCHANGED elsewhere

\* -------------------------------------------------------- specifications
Step(r) ==
    \/ \E f \in DbFaults : LoadTask(r, f)
    \/ \E f \in DbFaults : MarkInProgress(r, f)
    \/ \E f \in DbFaults : BuildInput(r, f)
    \/ \E b \in {0} \cup BatchIds, f \in Faults : generate_labels(r, b, f)
    \/ ValidateBatch(r)
    \/ \E f \in DbFaults : DeleteLabels(r, f)
    \/ \E f \in DbFaults : PersistLabels(r, f)
    \/ \E f \in DbFaults : AssignVectorId(r, f)
    \/ \E f \in Faults : generate_embedding(r, f)
    \/ \E f \in Faults : IndexUpsert(r, f)
    \/ \E f \in DbFaults : CommitEmbedding(r, f)
    \/ \E f \in DbFaults : RecordWarning(r, f)
    \/ QueryInHandler(r)
    \/ RecordFailure(r)

\* labeling runs one after the other, label edits between them; database
\* statements, commits and collaborator calls may raise
Next ==
    \/ \E r \in Runs : Start(r) \/ Step(r)
    \/ \E row \in task_labels, name \in EditNames : update_label(row, name)

Spec == Init /\ [][Next]_vars

\* a step of a run whose database statements and commits all succeed
ReliableStep(r) ==
    \/ LoadTask(r, 0)
    \/ MarkInProgress(r, 0)
    \/ BuildInput(r, 0)
    \/ \E b \in {0} \cup BatchIds, f \in Faults : generate_labels(r, b, f)
    \/ ValidateBatch(r)
    \/ DeleteLabels(r, 0)
    \/ PersistLabels(r, 0)
    \/ AssignVectorId(r, 0)
    \/ \E f \in Faults : generate_embedding(r, f)
    \/ \E f \in Faults : IndexUpsert(r, f)
    \/ CommitEmbedding(r, 0)
    \/ RecordWarning(r, 0)
    \/ QueryInHandler(r)
    \/ RecordFailure(r)

\* labeling runs for the same task in flight together (background threads of
\* create_task and update_task, re_label_task on the event loop), each with
\* its own session, on a database that does not fail
NextOverlap == \E r \in Runs : StartOverlapping(r) \/ ReliableStep(r)

SpecOverlap == Init /\ [][NextOverlap]_vars

\* ---------------------------------------------------- the ranking on its own
\* batches of MinLabels to MaxBatchLen labels, every confidence drawn from
\* RankConfidences, names distinct, three categories in turn
RankNames == << "n1", "n2", "n3", "n4", "n5", "n6", "n7", "n8", "n9" >>
RankCategories == << "location", "time", "energy" >>
RankConfidences == {0, 50, 100}
RankBatch(c) ==
    [i \in DOMAIN c |->
        GeneratedLabel(RankNames[i], RankCategories[(i % 3) + 1], c[i])]
RankInputs ==
    UNION { { RankBatch(c) : c \in [1..n -> RankConfidences] } :
            n \in MinLabels..MaxBatchLen }

InitRank ==
    /\ NoRun
    /\ generated \in RankInputs
    /\ ranked = {}
    /\ NoRecommendation
    /\ NoScope

\* lines 67-94 applied to the batch: validated, sorted, turned into rows
RankLabels ==
    /\ ranked = {}
    /\ validate_labels(generated)
    /\ ranked' = TaskLabelRows(1, generated)
    /\ UNCHANGED << generated, labeling, recommendation, scope, existence, accounts >>

SpecRank == InitRank /\ [][RankLabels]_vars

\* ------------------------------------------------------------- properties
\* what a set of rows, and a batch, say: name, category and confidence
RowTriples(rows) ==
    { << l.label_name, l.label_category, l.confidence_score >> : l \in rows }
BatchTriples(labels) ==
    { << labels[i].label_name, labels[i].category, labels[i].confidence >> :
      i \in DOMAIN labels }

\* the rows are the batch's labels, one unedited row per label
HoldsBatch(rows, labels) ==
    /\ RowTriples(rows) = BatchTriples(labels)
    /\ Cardinality(rows) = Len(labels)
    /\ \A l \in rows : ~ l.is_user_edited

\* run r got as far as committing its batch
Committed(r) == sync[r] # "none"

\* C1: labeling_status changes only along the edges pending -> in_progress,
\* in_progress -> completed, in_progress -> failed, completed -> in_progress
\* and failed -> in_progress, also when runs of the same task overlap.
StatusGraph ==
    { << "pending", "in_progress" >>, << "in_progress", "completed" >>,
      << "in_progress", "failed" >>, << "completed", "in_progress" >>,
      << "failed", "in_progress" >> }
C1_StatusFollowsGraph ==
    [][ task'.labeling_status # task.labeling_status
        => << task.labeling_status, task'.labeling_status >> \in StatusGraph
      ]_vars

\* C2: a run whose generated batch has fewer than 6 labels, fewer than 3
\* distinct categories or a confidence outside [0, 1] ends with status failed
\* and with the labels the task had before the run.
C2_Rejected(labels) ==
    \/ Len(labels) < 6
    \/ Cardinality({ labels[i].category : i \in DOMAIN labels }) < 3
    \/ \E i \in DOMAIN labels :
          labels[i].confidence < 0 \/ labels[i].confidence > 100
C2_InvalidBatchFails ==
    \A r \in Runs :
        ( ended[r].at # "no" /\ out[r] \in BatchIds
          /\ C2_Rejected(Batches[out[r]]) )
        => /\ ended[r].task.labeling_status = "failed"
           /\ ended[r].labels = before[r].labels
C2_Witness ==
    \E r \in Runs :
        /\ ended[r].at = "returned"
        /\ out[r] \in BatchIds
        /\ C2_Rejected(Batches[out[r]])
        /\ before[r].labels # {}
        /\ ended[r].task.labeling_status = "failed"

\* C3: when the LLM call, the parsing, the validation, the deletion of the
\* old labels, the insertion of the new ones or the commit raises, the run
\* ends with status failed, an error of at most 500 characters, and the
\* labels the task had before the run.
C3_Steps == { "llm", "too_few", "validation", "delete", "persist" }
C3_FailureRecorded ==
    \A r \in Runs :
        ( ended[r].at # "no" /\ ended[r].cause \in C3_Steps )
        => /\ ended[r].task.labeling_status = "failed"
           /\ ended[r].task.labeling_error.kind = "error"
           /\ ended[r].task.labeling_error.len <= 500
           /\ ended[r].labels = before[r].labels

\* C4: once the embedding sync of a run has failed, the task's status is
\* completed and the batch the run committed is in place, while the run
\* goes on and when it has ended.
C4_SyncFailureKeepsCompleted ==
    \A r \in Runs :
        /\ ( sync[r] = "failed" /\ Running(r) )
           => /\ task.labeling_status = "completed"
              /\ HoldsBatch(task_labels, Batches[out[r]])
        /\ ( sync[r] = "failed" /\ ended[r].at # "no" )
           => /\ ended[r].task.labeling_status = "completed"
              /\ HoldsBatch(ended[r].labels, Batches[out[r]])
C4_Witness ==
    \E r \in Runs :
        /\ sync[r] = "failed"
        /\ ended[r].at = "returned"
        /\ ended[r].task.labeling_error.kind = "warning"
        /\ ended[r].task.labeling_status = "completed"

\* C5: when a run that committed its batch has ended, the task's labels are
\* exactly that batch (nothing of the earlier labels, edited or not, is
\* left), the status is completed, and labeling_error is empty unless the
\* embedding sync failed.
C5_CompletedRunReplaces ==
    \A r \in Runs :
        ( ended[r].at # "no" /\ Committed(r) )
        => /\ HoldsBatch(ended[r].labels, Batches[out[r]])
           /\ ended[r].task.labeling_status = "completed"
           /\ ( ended[r].task.labeling_error # NoError
                => /\ sync[r] = "failed"
                   /\ ended[r].task.labeling_error.kind = "warning" )
C5_Witness ==
    \E r \in Runs :
        /\ ended[r].at = "returned"
        /\ sync[r] = "ok"
        /\ \E l \in before[r].labels : l.is_user_edited
        /\ before[r].task.labeling_error # NoError
        /\ ended[r].task.labeling_error = NoError

\* C6: of the rows made of a validated batch of n labels, exactly min(5, n)
\* are primary, and they are the five highest by confidence, a tie going to
\* the label that comes first in the batch.
C6_Ahead(i) ==
    { j \in DOMAIN generated :
        \/ generated[j].confidence > generated[i].confidence
        \/ generated[j].confidence = generated[i].confidence /\ j < i }
C6_TopFivePrimary ==
    ranked # {}
    => /\ Cardinality({ l \in ranked : l.is_primary })
             = Min(5, Len(generated))
       /\ Cardinality(ranked) = Len(generated)
       /\ \A i \in DOMAIN generated :
             \E l \in ranked :
                 /\ l.label_name = generated[i].label_name
                 /\ l.confidence_score = generated[i].confidence
                 /\ l.is_primary <=> Cardinality(C6_Ahead(i)) < 5
C6_Witness ==
    /\ ranked # {}
    /\ Len(generated) > 6
    /\ \E l, m \in ranked :
          /\ l.confidence_score = m.confidence_score
          /\ l.is_primary
          /\ ~ m.is_primary

\* C7: when overlapping runs of the same task have all completed, the
\* task's labels are the batch of exactly one of them, with at most 5
\* primary rows.
C7_OneBatchSurvives ==
    ( \A r \in Runs : pc[r] = "done" /\ Committed(r) )
    => /\ \E r \in Runs : HoldsBatch(task_labels, Batches[out[r]])
       /\ Cardinality({ l \in task_labels : l.is_primary }) <= 5

\* C8, as stated: while a run is in flight, the stored task has either its
\* previous labels with its previous labeling fields, or the complete new
\* batch with status completed.
LabelingFields(t) ==
    << t.labeling_status, t.labeling_attempted_at, t.labeling_completed_at,
       t.labeling_error >>
C9_SecondRunChangesNothing ==
    \A r \in Runs :
        ( /\ r > 1
          /\ ended[r].at = "returned"
          /\ ended[r - 1].at = "returned"
          /\ out[r] = out[r - 1]
          /\ sync[r] = sync[r - 1]
          /\ before[r].labels = ended[r - 1].labels )
        => /\ RowTriples(ended[r].labels) = RowTriples(ended[r - 1].labels)
           /\ Cardinality(ended[r].labels) = Cardinality(ended[r - 1].labels)
           /\ RowTriples({ l \in ended[r].labels : l.is_primary })
                 = RowTriples({ l \in ended[r - 1].labels : l.is_primary })
           /\ ended[r].task.labeling_status
                 = ended[r - 1].task.labeling_status
C9_Witness ==
    \E r \in Runs :
        /\ r > 1
        /\ ended[r].at = "returned"
        /\ ended[r - 1].at = "returned"
        /\ out[r] = out[r - 1]
        /\ out[r] \in BatchIds
        /\ validate_labels(Batches[out[r]])
        /\ sync[r] = sync[r - 1]
        /\ before[r].labels = ended[r - 1].labels
        /\ ended[r].task.labeling_status = "completed"

\* C10: process_task_labeling lets no exception out to its caller.
C10_NeverRaises == \A r \in Runs : pc[r] # "raised"

\* C11: a run that has set the task to in_progress does not end while the
\* status it set is still in_progress: when it ends the status is completed
\* or failed.
C11_NoDanglingInProgress ==
    \A r \in Runs :
        ( ended[r].at # "no" /\ ended[r].task.labeling_attempted_at = r )
        => ended[r].task.labeling_status \in { "completed", "failed" }

\* C12, as stated: the warning annotation stored in labeling_error after an
\* embedding sync failure has at most 200 characters.
C12_WarningAtMost200 ==
    task.labeling_error.kind = "warning" => task.labeling_error.len <= 200

\* C12, amended: the warning annotation has at most 236 characters, the 36
\* of "Labels created but Pinecone failed: " and at most 200 of the
\* underlying error message.
C12_WarningAtMost236 ==
    task.labeling_error.kind = "warning"
    => /\ task.labeling_error.len <= 236
       /\ task.labeling_error.len >= 36
C12_Witness ==
    /\ task.labeling_error.kind = "warning"
    /\ task.labeling_error.len = 236
    /\ task.labeling_status = "completed"

\* ------------------------------------- calculate_label_match_score on its own
\* the labels of a task: up to MaxScoreLabels rows, names and confidences
\* drawn from ScoreNames and ScoreConfidences
ScoreNames == { "home", "Home", "homework", "morning" }
ScoreConfidences == { 0, 90, 100 }
ScoreRows ==
    { [label_name |-> n, confidence_score |-> c] :
      n \in ScoreNames, c \in ScoreConfidences }
ScoreLabels ==
    UNION { [1..n -> ScoreRows] : n \in 0..MaxScoreLabels }

\* the contexts the extraction can give: fields unset, empty or set, in
\* either case, and other_labels that repeat a field or hold an empty string
ScoreContexts ==
    { [ location |-> l, time_of_day |-> t, energy_level |-> None,
        mood |-> m, duration_available |-> None, other_labels |-> o ] :
      l \in { None, "", "home", "HOME" },
      t \in { None, "Morning" },
      m \in { None, "focused" },
      o \in { << >>, << "home" >>, << "gym", "Home" >>, << "" >> } }

InitScore ==
    /\ NoRun
    /\ NoRanking
    /\ NoScope
    /\ store = << >>
    /\ top_k = 0
    /\ llm = NoCalls
    /\ response = NoResponse
    /\ \E ls \in ScoreLabels, c \in ScoreContexts :
          scoring = [labels |-> ls, context |-> c, result |-> NoResult]

\* one call of calculate_label_match_score(task.labels, user_context)
ScoreTask ==
    /\ ~ scoring.result.returned
    /\ scoring' =
          [ scoring EXCEPT !.result =
              [ score |-> calculate_label_match_score(
                              scoring.labels, scoring.context).score,
                matching_labels |-> calculate_label_match_score(
                              scoring.labels, scoring.context).matching_labels,
                returned |-> TRUE ] ]
    /\ UNCHANGED << labeling, rank, scope, existence, accounts, store,
                    top_k, llm, response >>

SpecScore == InitScore /\ [][ScoreTask]_vars

\* equality of two strings of the model, upper and lower case taken as one
SameIgnoringCase(a, b) ==
    \/ a = b
    \/ { a, b } \subseteq { "home", "Home", "HOME" }
    \/ { a, b } \subseteq { "morning", "Morning" }

\* the context strings of the scored call: the non-empty fields, by field
\* name, and the entries of other_labels, by position
ContextFields ==
    { f \in { "location", "time_of_day", "energy_level", "mood",
              "duration_available" } :
        scoring.context[f] # None /\ scoring.context[f] # "" }
ContextStrings ==
    { << f, 0, scoring.context[f] >> : f \in ContextFields }
    \cup { << "other_labels", i, scoring.context.other_labels[i] >> :
           i \in DOMAIN scoring.context.other_labels }

\* every pair of a context string and a task label of the same name
MatchingPairs ==
    { p \in ContextStrings \X DOMAIN scoring.labels :
        SameIgnoringCase(p[1][3], scoring.labels[p[2]].label_name) }

RECURSIVE PairConfidences(_)
PairConfidences(pairs) ==
    IF pairs = {} THEN 0
    ELSE LET p == CHOOSE q \in pairs : TRUE
         IN  scoring.labels[p[2]].confidence_score
             + PairConfidences(pairs \ { p })

\* C13: the call returns score 0 and no match when the context has no
\* non-empty field and no other_labels, and when no context string equals,
\* case aside, the name of a label of the task, whatever the labels and
\* their confidences.
C13_NoOverlapScoresZero ==
    ( /\ scoring.result.returned
      /\ \/ ContextFields = {} /\ scoring.context.other_labels = << >>
         \/ MatchingPairs = {} )
    => /\ scoring.result.score.num = 0
       /\ scoring.result.matching_labels = << >>
C13_Witness ==
    /\ scoring.result.returned
    /\ ContextStrings # {}
    /\ MatchingPairs = {}
    /\ \E i \in DOMAIN scoring.labels :
          scoring.labels[i].confidence_score = 100
    /\ scoring.result.score.num = 0

\* C14: with at least one match the score is min(1.0, (matchedCount /
\* totalContext) * 0.4 + (sum of matched confidences / matchedCount) * 0.5
\* + min(0.3, matchedCount * 0.1)), matchedCount counting every matching
\* pair; one context string matching one label of confidence 0.9 gives
\* 0.95; the score is within [0, 1].
C14_Expected ==
    LET m == Cardinality(MatchingPairs)
        t == Cardinality(ContextStrings)
    IN  Fraction(400 * m * m + 5 * PairConfidences(MatchingPairs) * t
                 + (IF m * 100 < 300 THEN m * 100 ELSE 300) * t * m,
                 1000 * t * m)
C14_ScoreFormula ==
    ( scoring.result.returned /\ MatchingPairs # {} )
    => /\ IF C14_Expected.num >= C14_Expected.den
          THEN scoring.result.score.num = scoring.result.score.den
          ELSE Same(scoring.result.score, C14_Expected)
       /\ Len(scoring.result.matching_labels) = Cardinality(MatchingPairs)
       /\ 0 <= scoring.result.score.num
       /\ scoring.result.score.num <= scoring.result.score.den
       /\ ( /\ Cardinality(ContextStrings) = 1
            /\ Len(scoring.labels) = 1
            /\ scoring.labels[1].confidence_score = 90 )
          => Same(scoring.result.score, Fraction(95, 100))
C14_Witness ==
    /\ scoring.result.returned
    /\ Cardinality(MatchingPairs) > Cardinality(ContextStrings)
    /\ scoring.context.location = "HOME"
    /\ Less(scoring.result.score, Fraction(1, 1))
    /\ Less(Fraction(1, 2), scoring.result.score)

\* ----------------------------------------------------------- recommend_tasks
\* the rows of tasks the request can find: an open task with a matching
\* label, one with a stronger match, a soft-deleted one, a completed one, one
\* without labels and one whose only label is not in the context
Label(name, confidence) ==
    [ label_name |-> name, confidence_score |-> confidence ]
TaskKinds ==
    { [ is_active |-> TRUE,  status |-> "todo", labels |-> << Label("home", 90) >> ],
      [ is_active |-> TRUE,  status |-> "in_progress",
        labels |-> << Label("Home", 100), Label("morning", 100) >> ],
      [ is_active |-> FALSE, status |-> "todo", labels |-> << Label("home", 100) >> ],
      [ is_active |-> TRUE,  status |-> "completed",
        labels |-> << Label("home", 100) >> ],
      [ is_active |-> TRUE,  status |-> "todo", labels |-> << >> ],
      [ is_active |-> TRUE,  status |-> "todo", labels |-> << Label("gym", 100) >> ] }
TaskRow(id, kind) ==
    [ id |-> id, is_active |-> kind.is_active, status |-> kind.status,
      labels |-> kind.labels ]
Stores ==
    UNION { { [ i \in 1..n |-> TaskRow(i, kinds[i]) ] :
              kinds \in [ 1..n -> TaskKinds ] } : n \in 0..MaxTasks }

\* the context the LLM extracts when its call succeeds
ExtractedContexts ==
    { [ EmptyContext EXCEPT !.location = "home" ],
      [ EmptyContext EXCEPT !.location = "home", !.time_of_day = "Morning",
                            !.other_labels = << "quiet" >> ] }

\* extract_context_from_message: the parsed reply, or an empty context when
\* the call or the parsing raised
extract_context_from_message(failed, parsed) ==
    IF failed THEN EmptyContext ELSE parsed

\* the filter of the query: rows of every status but completed
is_candidate_of_any_status(t) == t.is_active

\* the filter of the query
is_candidate(t) == t.is_active /\ t.status # "completed"

query_tasks(rows) == SelectSeq(rows, is_candidate)

\* the loop over the rows found: the scored ones, in the order found
RECURSIVE task_scores(_, _)
task_scores(tasks, user_context) ==
    IF tasks = << >> THEN << >>
    ELSE LET t == tasks[Len(tasks)]
             r == calculate_label_match_score(t.labels, user_context)
             rest == task_scores(SubSeq(tasks, 1, Len(tasks) - 1), user_context)
         IN  IF t.labels = << >> THEN rest
             ELSE IF Less(Zero, r.score)
             THEN Append(rest, [ task_id |-> t.id, score |-> r.score,
                                 matching_labels |-> r.matching_labels ])
             ELSE rest

\* an insertion that puts the item ahead of the items of equal score
insert_ahead_of_equal(sorted, item) ==
    LET p == Cardinality({ j \in DOMAIN sorted :
                             Less(item.score, sorted[j].score) })
    IN  SubSeq(sorted, 1, p) \o << item >> \o SubSeq(sorted, p + 1, Len(sorted))

\* list.sort(key=score, reverse=True), by insertion: an item goes behind
\* every item whose score is not smaller
insert_by_score(sorted, item) ==
    LET p == Cardinality({ j \in DOMAIN sorted :
                             ~ Less(sorted[j].score, item.score) })
    IN  SubSeq(sorted, 1, p) \o << item >> \o SubSeq(sorted, p + 1, Len(sorted))

RECURSIVE sort_by_score(_)
sort_by_score(items) ==
    IF items = << >> THEN << >>
    ELSE insert_by_score(sort_by_score(SubSeq(items, 1, Len(items) - 1)),
                         items[Len(items)])

\* task_scores[:top_k]
top_tasks(items, k) == SubSeq(items, 1, Min(k, Len(items)))

\* what leaves a call whose exception nothing catches
Raised == "<raised>"
TemplateReasoning == "Matches your context"
TemplateMessage == "I found tasks for you"
NothingFoundMessage == "I couldn't find any tasks"

\* a justification whose failure leaves the function
generate_reasoning_uncaught(failed) ==
    IF failed THEN Raised ELSE "reasoning of the LLM"

\* _generate_reasoning: the reply, the template when the call raised
generate_reasoning(failed) ==
    IF failed THEN TemplateReasoning ELSE "reasoning of the LLM"

\* generate_task_suggestions: every suggestion of the reply, none when the
\* call or the parsing raised
generate_task_suggestions(failed, sent) ==
    IF failed THEN << >> ELSE [ i \in 1..sent |-> i ]

\* _generate_response_message: the reply, the template when the call raised
generate_response_message(failed) ==
    IF failed THEN TemplateMessage ELSE "message of the LLM"

\* the recommendations of the request, one per top task
TaskRecommendation(item, reasoning) ==
    [ task_id |-> item.task_id, match_score |-> item.score,
      matching_labels |-> item.matching_labels, reasoning |-> reasoning ]

RecommendationResponse(rows, k, calls) ==
    LET user_context ==
            extract_context_from_message(calls.context_failed, calls.context)
        top == top_tasks(sort_by_score(task_scores(query_tasks(rows),
                                                   user_context)), k)
        recommendations ==
            [ i \in DOMAIN top |->
                TaskRecommendation(top[i],
                    generate_reasoning(i \in calls.reasoning_failed)) ]
        suggestions ==
            generate_task_suggestions(calls.suggestions_failed, calls.suggested)
        message ==
            IF recommendations # << >> \/ suggestions # << >>
            THEN generate_response_message(calls.message_failed)
            ELSE NothingFoundMessage
    IN  IF \/ \E i \in DOMAIN recommendations :
                 recommendations[i].reasoning = Raised
           \/ message = Raised
        THEN [ NoResponse EXCEPT !.raised = TRUE ]
        ELSE [ returned |-> TRUE, raised |-> FALSE,
               user_context |-> user_context,
               recommendations |-> recommendations,
               suggestions |-> suggestions, message |-> message ]

\* what the LLM can do in one request on these rows
Calls(rows, k) ==
    { c \in [ context_failed : BOOLEAN,
              context : ExtractedContexts \cup { EmptyContext },
              reasoning_failed : SUBSET (1..k),
              suggestions_failed : BOOLEAN, suggested : 0..MaxSuggested,
              message_failed : BOOLEAN ] :
        /\ c.context_failed <=> c.context = EmptyContext
        /\ c.suggestions_failed => c.suggested = 0
        /\ c.reasoning_failed \subseteq
             DOMAIN RecommendationResponse(rows, k,
                        [ c EXCEPT !.reasoning_failed = {} ]).recommendations }

InitRecommend ==
    /\ NoRun
    /\ NoRanking
    /\ NoScope
    /\ scoring = NoScoring
    /\ store \in Stores
    /\ top_k \in 1..MaxTopK
    /\ llm = NoCalls
    /\ response = NoResponse

recommend_tasks ==
    /\ ~ response.returned
    /\ ~ response.raised
    /\ \E calls \in Calls(store, top_k) :
          /\ llm' = calls
          /\ response' = RecommendationResponse(store, top_k, calls)
    /\ UNCHANGED << labeling, rank, scope, existence, accounts, scoring,
                    store, top_k >>

SpecRecommend == InitRecommend /\ [][recommend_tasks]_vars

\* the rows a recommendation may name: open, labelled, of positive score in
\* the context of the response
Recommendable ==
    { i \in DOMAIN store :
        /\ store[i].is_active
        /\ store[i].status # "completed"
        /\ store[i].labels # << >>
        /\ Less(Zero, calculate_label_match_score(store[i].labels,
                          response.user_context).score) }
ScoreOf(i) ==
    calculate_label_match_score(store[i].labels, response.user_context).score
Recommended == { response.recommendations[i].task_id :
                   i \in DOMAIN response.recommendations }

\* C15: recommend_tasks returns only tasks that are active, not completed
\* and labelled, and never one of score 0; a soft-deleted or completed task
\* is never recommended, whatever its labels.
C15_OnlyOpenLabelledScored ==
    response.returned =>
      \A i \in DOMAIN response.recommendations :
        LET r == response.recommendations[i]
            t == store[r.task_id]
        IN  /\ t.id = r.task_id
            /\ t.is_active
            /\ t.status # "completed"
            /\ t.labels # << >>
            /\ r.match_score.num > 0
C15_Witness ==
    /\ response.returned
    /\ response.recommendations # << >>
    /\ \E i, j \in DOMAIN store :
          /\ ~ store[i].is_active /\ store[i].labels # << >>
          /\ store[j].status = "completed" /\ store[j].labels # << >>

\* C16: with m candidates of positive score the response holds exactly
\* min(top_k, m) recommendations, the highest-scoring ones, in non-increasing
\* order of score, candidates of equal score in their candidate order.
C16_TopKStable ==
    response.returned =>
      LET recs == response.recommendations
      IN  /\ Len(recs) = Min(top_k, Cardinality(Recommendable))
          /\ Recommended \subseteq Recommendable
          /\ \A i \in DOMAIN recs :
                Same(recs[i].match_score, ScoreOf(recs[i].task_id))
          /\ \A i, j \in DOMAIN recs :
                i < j => /\ ~ Less(recs[i].match_score, recs[j].match_score)
                         /\ Same(recs[i].match_score, recs[j].match_score)
                            => recs[i].task_id < recs[j].task_id
          /\ \A i \in DOMAIN recs : \A c \in Recommendable \ Recommended :
                /\ ~ Less(recs[i].match_score, ScoreOf(c))
                /\ Same(recs[i].match_score, ScoreOf(c))
                   => recs[i].task_id < c
C16_Witness ==
    /\ response.returned
    /\ Cardinality(Recommendable) > top_k
    /\ Len(response.recommendations) = 2
    /\ Less(response.recommendations[2].match_score,
            response.recommendations[1].match_score)
    /\ response.recommendations[2].task_id < response.recommendations[1].task_id
    /\ \E c \in Recommendable \ Recommended :
          Same(ScoreOf(c), response.recommendations[2].match_score)

\* the request served with the same extraction and every later call succeeding
AllCallsSucceed(calls) ==
    [ calls EXCEPT !.reasoning_failed = {}, !.suggestions_failed = FALSE,
                   !.message_failed = FALSE ]
Listed(resp) ==
    [ i \in DOMAIN resp.recommendations |->
        << resp.recommendations[i].task_id,
           resp.recommendations[i].match_score >> ]

\* C17: whatever calls of the LLM fail (extraction, justifications,
\* suggestions, summary), recommend_tasks returns a response and raises
\* nothing, and the failures of the justification, suggestion and summary
\* calls leave the recommendation list (task ids, scores, order) as it is
\* when those calls succeed.
C17_FailuresKeepTheList ==
    llm # NoCalls =>
      /\ response.returned
      /\ ~ response.raised
      /\ Listed(response)
           = Listed(RecommendationResponse(store, top_k, AllCallsSucceed(llm)))
C17_Witness ==
    /\ response.returned
    /\ llm.reasoning_failed = { 1, 2 }
    /\ llm.suggestions_failed
    /\ llm.message_failed
    /\ Len(response.recommendations) = 2
    /\ response.recommendations[1].reasoning = TemplateReasoning
    /\ response.message = TemplateMessage

\* C18: the suggestions of a response are never more than 3, whatever the
\* LLM returns, and none when the suggestion call or its parsing fails.
C18_AtMostThreeSuggestions ==
    response.returned =>
      /\ Len(response.suggestions) <= 3
      /\ llm.suggestions_failed => response.suggestions = << >>

\* ------------------------------------------- the requests of several users
\* The tasks table carries a user_id (migrate_add_user_id.py); the label and
\* recommendation endpoints authenticate the caller, the task endpoints take
\* no credentials at all.
Users == 1..MaxUsers
TaskIds == 1..MaxOwned
OwnedRow(id, user) ==
    [ id |-> id, user_id |-> user, is_active |-> TRUE, title |-> "old" ]

\* what a request read or changed: the row's id and its owner
Touch(id) == [ id |-> id, user_id |-> owned[id].user_id ]
Request(user, op, id, touched, code) ==
    [ user |-> user, op |-> op, task_id |-> id, touched |-> touched,
      code |-> code ]

InitScope ==
    /\ NoRun
    /\ NoRanking
    /\ NoRecommendation
    /\ \E owners \in [ TaskIds -> Users ] :
          owned = [ i \in TaskIds |-> OwnedRow(i, owners[i]) ]
    /\ served = NoRequest

\* GET /tasks/: every row that passes the filters, is_active by default
list_tasks(user) ==
    /\ served' = Request(user, "list_tasks", 0,
                         { Touch(i) : i \in { j \in DOMAIN owned :
                                                owned[j].is_active } }, 200)
    /\ UNCHANGED << owned, labeling, rank, recommendation, existence, accounts >>

\* GET /tasks/{task_id}: the row of that id
get_task(user, id) ==
    /\ served' = IF id \in DOMAIN owned
                 THEN Request(user, "get_task", id, { Touch(id) }, 200)
                 ELSE Request(user, "get_task", id, {}, 404)
    /\ UNCHANGED << owned, labeling, rank, recommendation, existence, accounts >>

\* PUT /tasks/{task_id}: sets the fields sent on the row of that id
update_task(user, id, title) ==
    /\ IF id \in DOMAIN owned
       THEN /\ owned' = [ owned EXCEPT ![id].title = title ]
            /\ served' = Request(user, "update_task", id, { Touch(id) }, 200)
       ELSE /\ served' = Request(user, "update_task", id, {}, 404)
            /\ UNCHANGED owned
    /\ UNCHANGED << labeling, rank, recommendation, existence, accounts >>

\* DELETE /tasks/{task_id}: deactivates the row of that id, or removes it
delete_task(user, id, hard_delete) ==
    /\ IF id \in DOMAIN owned
       THEN /\ owned' = IF hard_delete
                        THEN [ i \in DOMAIN owned \ { id } |-> owned[i] ]
                        ELSE [ owned EXCEPT ![id].is_active = FALSE ]
            /\ served' = Request(user, "delete_task", id, { Touch(id) }, 204)
       ELSE /\ served' = Request(user, "delete_task", id, {}, 404)
            /\ UNCHANGED owned
    /\ UNCHANGED << labeling, rank, recommendation, existence, accounts >>

\* GET /labels/task/{task_id}: the row of that id and of the caller
get_task_labels(user, id) ==
    /\ served' = IF id \in DOMAIN owned /\ owned[id].user_id = user
                 THEN Request(user, "get_task_labels", id, { Touch(id) }, 200)
                 ELSE Request(user, "get_task_labels", id, {}, 404)
    /\ UNCHANGED << owned, labeling, rank, recommendation, existence, accounts >>

\* POST /recommendations/: hands recommend_tasks one positional argument
\* more than it takes, the call raises before any query
get_task_recommendations(user) ==
    /\ served' = Request(user, "get_task_recommendations", 0, {}, 500)
    /\ UNCHANGED << owned, labeling, rank, recommendation, existence, accounts >>

NextScope ==
    \E user \in Users :
      \/ list_tasks(user)
      \/ get_task_recommendations(user)
      \/ \E id \in TaskIds :
           \/ get_task(user, id)
           \/ get_task_labels(user, id)
           \/ \E title \in { "old", "new" } : update_task(user, id, title)
           \/ \E hard_delete \in BOOLEAN : delete_task(user, id, hard_delete)

SpecScope == InitScope /\ [][NextScope]_vars

\* C19: every read and write of a task, a label or a recommendation is
\* scoped to the authenticated user: a request made for user U reads and
\* changes only tasks owned by U.
C19_ScopedToUser ==
    \A t \in served.touched : t.user_id = served.user

\* ------------------------------------------- update_label, request on request
\* the rows of one completed labeling run, then label edits only
EditRequestNames == { "errand", "chore", None }
GeneratedRows == TaskLabelRows(1, BatchA)

InitEdit ==
    /\ NoRun
    /\ NoRanking
    /\ NoRecommendation
    /\ NoScope

\* the rows of the run are stored by its first step, before any request
StoreGenerated ==
    /\ task_labels = {}
    /\ edits = 0
    /\ task_labels' = GeneratedRows
    /\ UNCHANGED << task, vectors, pc, sess, out, exc, attempts, before,
                    sync, ended, edits >>
    /\ UNCHANGED elsewhere

\* PUT /labels/{label_id} on any row of the batch
update_label_request(row, name) ==
    /\ edits < MaxEditRequests
    /\ row \in task_labels
    /\ task_labels' = (task_labels \ {row}) \cup {EditedRow(row, name)}
    /\ edits' = edits + 1
    /\ UNCHANGED << task, vectors, pc, sess, out, exc, attempts, before,
                    sync, ended >>
    /\ UNCHANGED elsewhere

NextEdit ==
    \/ StoreGenerated
    \/ \E row \in task_labels, name \in EditRequestNames :
          update_label_request(row, name)

SpecEdit == InitEdit /\ [][NextEdit]_vars

\* the name the labeling run gave the row
GeneratedName(row) ==
    (CHOOSE g \in GeneratedRows : g.id = row.id).label_name

\* C20: once a label has is_user_edited true its original_label never
\* changes under any later update_label request, and original_label holds
\* the name the label had right before its first user edit.
C20_OriginalLabelWriteOnce ==
    /\ [](\A row \in task_labels :
            row.is_user_edited => row.original_label = GeneratedName(row))
    /\ [][\A row \in task_labels : \A next \in task_labels' :
            (row.is_user_edited /\ next.id = row.id)
            => /\ next.is_user_edited
               /\ next.original_label = row.original_label]_vars
C20_Witness ==
    /\ edits = 2
    /\ \E row \in task_labels :
          /\ row.is_user_edited
          /\ row.label_name = "chore"
          /\ row.original_label = GeneratedName(row)
          /\ row.original_label # ""
          /\ \A other \in task_labels \ { row } : ~ other.is_user_edited

\* the context strings of the scored call in the order of the fields
\* location, time_of_day, energy_level, mood, duration_available, then
\* other_labels as given
FieldOrder ==
    << "location", "time_of_day", "energy_level", "mood",
       "duration_available" >>
OrderedContextStrings ==
    LET set == SelectSeq(FieldOrder, LAMBDA f : f \in ContextFields)
    IN  [ i \in DOMAIN set |-> scoring.context[set[i]] ]
        \o scoring.context.other_labels
LabelsNamed(s) ==
    { j \in DOMAIN scoring.labels :
        SameIgnoringCase(s, scoring.labels[j].label_name) }
RECURSIVE OncePerPair(_)
OncePerPair(strings) ==
    IF strings = << >> THEN << >>
    ELSE [ i \in 1..Cardinality(LabelsNamed(Head(strings))) |-> Head(strings) ]
         \o OncePerPair(Tail(strings))

\* C24: the match list holds the context string once for every pair of a
\* context string and a task label of the same name, case aside, nothing
\* removed as a duplicate, in the order of the context: location,
\* time of day, energy, mood, duration, then other_labels as given.
C24_MatchListPerPairInOrder ==
    scoring.result.returned =>
      scoring.result.matching_labels = OncePerPair(OrderedContextStrings)
C24_Witness ==
    /\ scoring.result.returned
    /\ Len(scoring.result.matching_labels) >= 3
    /\ Len(scoring.context.other_labels) = 2
    /\ scoring.result.matching_labels[1] = scoring.context.location
    /\ scoring.result.matching_labels[2] = scoring.context.location
    /\ scoring.result.matching_labels[3] = scoring.context.other_labels[2]
    /\ scoring.context.location # scoring.context.other_labels[2]

\* C28: with confidences in [0,1] the score is strictly positive exactly
\* when the match list is not empty, so that dropping the tasks of score 0
\* drops the tasks without a matching label and no other.
C28_PositiveIffMatched ==
    scoring.result.returned =>
      ( scoring.result.score.num > 0 /\ scoring.result.score.den > 0 )
      <=> MatchingPairs # {}
C28_Witness ==
    /\ scoring.result.returned
    /\ MatchingPairs # {}
    /\ \A p \in MatchingPairs : scoring.labels[p[2]].confidence_score = 0
    /\ scoring.result.score.num > 0

\* C25: the vector identifier of the task is generated at most once: once
\* vector_id is stored no later embedding sync changes it, whether it
\* succeeds or fails, alone or overlapping another run, and the vector store
\* never holds more than one vector for the task.
C25_OneVectorPerTask ==
    /\ [](Cardinality(vectors) <= 1)
    /\ [][task.vector_id # 0 => task'.vector_id = task.vector_id]_vars

\* how far a run has come in process_task_labeling
StepOrder ==
    << "idle", "load", "mark", "input", "generate", "validate", "delete",
       "persist", "sync", "embed", "upsert", "embedded", "warn", "except",
       "record", "done", "raised" >>
Reached(p) == CHOOSE i \in DOMAIN StepOrder : StepOrder[i] = p

\* C26: one embedding sync calls the embedding collaborator at most 3
\* times: it goes on at the first success, fails to its caller only after 3
\* failures in a row, and neither the vector-store upsert nor the
\* label-generation call is made a second time.
C26_EmbeddingRetriedOnly ==
    /\ [](\A r \in Runs : attempts[r] <= 3)
    /\ [][\A r \in Runs :
            /\ attempts'[r] > attempts[r]
               => /\ pc[r] = "embed"
                  /\ attempts'[r] = attempts[r] + 1
            /\ (pc[r] = "embed" /\ pc'[r] = "warn") => attempts'[r] = 3
            /\ (pc[r] = "embed" /\ pc'[r] = "upsert")
               => /\ attempts'[r] = attempts[r] + 1
                  /\ exc'[r] = NoException
            /\ pc[r] \in { "generate", "upsert" } => pc'[r] # pc[r]
            /\ pc[r] \notin { "done", "raised" }
               => Reached(pc'[r]) >= Reached(pc[r])]_vars
C26_Witness ==
    \E r \in Runs :
      /\ pc[r] = "warn"
      /\ exc[r].kind = "embedding"
      /\ attempts[r] = 3
      /\ out[r] # 0

\* C22: in a labeling run the in_progress status and the attempt timestamp
\* are committed before the LLM is called: while the call of a run is in
\* flight the stored status of the task is not pending, it is in_progress
\* with the attempt time of that run.
C22_InProgressBeforeLLM ==
    \A r \in Runs :
      pc[r] = "generate"
      => /\ task.labeling_status # "pending"
         /\ task.labeling_status = "in_progress"
         /\ task.labeling_attempted_at = r
C22_Witness ==
    \E r \in Runs :
      /\ pc[r] = "generate"
      /\ before[r].task.labeling_status = "pending"
      /\ task.labeling_status = "in_progress"

\* ------------------------------------------- runs on a task that was deleted
\* DELETE /tasks/{task_id}?hard_delete=true while no run is past its load:
\* the row goes, its labels with it (cascade="all, delete-orphan"); the
\* vector store is not told
DeleteTaskRow ==
    /\ present
    /\ \A r \in Runs : pc[r] \in { "idle", "load", "done", "raised" }
    /\ present' = FALSE
    /\ task_labels' = {}
    /\ UNCHANGED << task, vectors, pc, sess, out, exc, attempts, before, sync,
                    ended, edits >>
    /\ UNCHANGED << rank, recommendation, scope, accounts >>

NextDelete ==
    \/ \E r \in Runs : Start(r) \/ ReliableStep(r)
    \/ DeleteTaskRow

SpecDelete == Init /\ [][NextDelete]_vars

\* C23: a labeling run for a task that is no longer there changes nothing:
\* it writes no task and no label row, calls neither the LLM nor the
\* embedding collaborator nor the vector store, and ends without error, also
\* when the task is hard-deleted between the dispatch of the run and its
\* start.
C23_RunOnDeletedTaskIsNoOp ==
    /\ [](\A r \in Runs : ~ present => pc[r] \in { "idle", "load", "done", "raised" })
    /\ [][~ present =>
            /\ task' = task
            /\ task_labels' = {}
            /\ vectors' = vectors
            /\ attempts' = attempts
            /\ \A r \in Runs : out'[r] \in { out[r], 0 }
            /\ \A r \in Runs : sync'[r] \in { sync[r], "none" }
            /\ \A r \in Runs :
                  pc'[r] # pc[r]
                  => \/ pc[r] = "idle" /\ pc'[r] = "load"
                     \/ /\ pc[r] = "load"
                        /\ pc'[r] = "done"
                        /\ ended'[r].at = "returned"
                        /\ ended'[r].cause = "none"]_vars
C23_Witness ==
    /\ ~ present
    /\ pc[1] = "done"
    /\ vectors # {}
    /\ pc[2] = "done"
    /\ ended[2].at = "returned"
    /\ out[2] = 0
    /\ before[2].task.labeling_status = "completed"
    /\ before[2].labels # {}
    /\ task_labels = {}

\* ------------------------------------------------ create_task and update_task
\* One task, its row in owned[1]. title, description, priority and due_date
\* are worth 0 or 1 (two values each), times are the number of the request.
ContentFields == { "title", "description", "priority", "due_date" }
UpdateFields == ContentFields \cup { "status", "is_active" }
TaskStatuses == { "todo", "completed", "cancelled" }
Unset == "<unset>"

\* a TaskUpdate body: the fields sent (exclude_unset) and their values
TaskUpdates ==
    { u \in [ sent : SUBSET UpdateFields, content : { 0, 1 },
              status : TaskStatuses \cup { Unset },
              is_active : BOOLEAN ] :
        /\ ("status" \in u.sent) <=> (u.status # Unset)
        /\ "is_active" \notin u.sent => u.is_active
        /\ u.sent \cap ContentFields = {} => u.content = 0 }

\* the row create_task adds: the fields of TaskCreate, the column defaults
CreatedTask(status) ==
    [ id |-> 1, title |-> 0, description |-> 0, priority |-> 0,
      due_date |-> 0, status |-> status, is_active |-> TRUE,
      completed_at |-> 0 ]

TaskRequest(op, changed, dispatched, code, at) ==
    [ op |-> op, changed |-> changed, dispatched |-> dispatched,
      code |-> code, at |-> at ]

InitTasks ==
    /\ NoRun
    /\ NoRanking
    /\ NoRecommendation
    /\ owned = << >>
    /\ served = TaskRequest("none", {}, 0, 0, 0)

\* POST /tasks/: the row is added and one labeling run is dispatched
create_task(status) ==
    /\ owned = << >>
    /\ owned' = << CreatedTask(status) >>
    /\ served' = TaskRequest("create_task", {}, 1, 201, served.at + 1)
    /\ UNCHANGED << labeling, rank, recommendation, existence, accounts >>

\* lines 120-124: completed_at follows the status sent
completed_at_after(row, update, now) ==
    IF "status" \in update.sent /\ update.status = "completed"
    THEN IF row.status # "completed" THEN now ELSE row.completed_at
    ELSE IF "status" \in update.sent THEN 0
    ELSE row.completed_at

\* lines 126-127: setattr for every field sent
UpdatedTask(row, update, now) ==
    [ id |-> row.id,
      title |-> IF "title" \in update.sent THEN update.content ELSE row.title,
      description |-> IF "description" \in update.sent
                      THEN update.content ELSE row.description,
      priority |-> IF "priority" \in update.sent
                   THEN update.content ELSE row.priority,
      due_date |-> IF "due_date" \in update.sent
                   THEN update.content ELSE row.due_date,
      status |-> IF "status" \in update.sent THEN update.status ELSE row.status,
      is_active |-> IF "is_active" \in update.sent
                    THEN update.is_active ELSE row.is_active,
      completed_at |-> completed_at_after(row, update, now) ]

\* lines 112-117: a content field is among the fields sent
content_changed(update) == update.sent \cap ContentFields # {}

\* PUT /tasks/{task_id} with a TaskUpdate body; a re-labeling run is
\* dispatched if content_changed
update_task_fields(update) ==
    /\ served.at < MaxRequests
    /\ IF owned = << >>
       THEN /\ served' = TaskRequest("update_task", {}, 0, 404, served.at + 1)
            /\ UNCHANGED owned
       ELSE LET now == served.at + 1
                row == UpdatedTask(owned[1], update, now)
            IN  /\ owned' = << row >>
                /\ served' = TaskRequest("update_task",
                                 { f \in UpdateFields : row[f] # owned[1][f] },
                                 IF content_changed(update) THEN 1 ELSE 0,
                                 200, now)
    /\ UNCHANGED << labeling, rank, recommendation, existence, accounts >>

NextTasks ==
    \/ \E status \in TaskStatuses : create_task(status)
    \/ \E update \in TaskUpdates : update_task_fields(update)

SpecTasks == InitTasks /\ [][NextTasks]_vars

\* C27: creating a task dispatches exactly one labeling run; an update
\* dispatches exactly one re-labeling run whenever it changes title,
\* description, priority or due date, and none when it changes only the
\* status or the active flag.
C27_DispatchFollowsContentChange ==
    /\ served.op = "create_task" => served.dispatched = 1
    /\ ( served.op = "update_task" /\ served.code = 200 )
       => /\ served.changed \cap ContentFields # {} => served.dispatched = 1
          /\ ( served.changed # {}
               /\ served.changed \subseteq { "status", "is_active" } )
             => served.dispatched = 0

\* C30: after any create_task and update_task requests the completed_at of
\* a task is set exactly when its status is completed: set when the status
\* becomes completed, kept while it stays completed, cleared when the
\* status is set to another value.
C30_CompletedAtIffCompleted ==
    /\ [](\A i \in DOMAIN owned :
            (owned[i].completed_at # 0) <=> (owned[i].status = "completed"))
    /\ [][\A i \in DOMAIN owned :
            ( owned[i].status = "completed" /\ owned'[i].status = "completed" )
            => owned'[i].completed_at = owned[i].completed_at]_vars

-----------------------------------------------------------------------------
(* Accounts: register, login, logout and refresh of the access token.      *)
(* A register request is taken in three steps (the lookup, the insert of   *)
(* the user, the insert of the refresh token), since each is a statement   *)
(* or a commit of its own and requests of several workers interleave; the  *)
(* other handlers are taken whole.                                         *)

Emails == {"a@example.com", "b@example.com"}
Registrations == 1..MaxRegistrations
TokenBound == MaxTokens + MaxRegistrations

\* A row of users: the request that inserts it stands for its id.
UserRow(id, email) == [id |-> id, email |-> email, is_active |-> TRUE]

\* A row of refresh_tokens as _create_user_tokens stores it.
RefreshTokenRow(token, user_id) ==
    [token |-> token, user_id |-> user_id, is_active |-> TRUE,
     is_revoked |-> FALSE]

UsersWithEmail(email) == {u \in users : u.email = email}

RegRequest(at, email, detail) ==
    [pc |-> at, email |-> email, detail |-> detail]

AuthAnswer(op, user, token, issued) ==
    [op |-> op, user |-> user, token |-> token, issued |-> issued]

\* create_refresh_token: the jti makes every token string a new one.
create_refresh_token == Cardinality(refresh_tokens) + 1

create_user_tokens(op, user_id) ==
    /\ refresh_tokens' = refresh_tokens \cup
           {RefreshTokenRow(create_refresh_token, user_id)}
    /\ auth' = AuthAnswer(op, user_id, create_refresh_token, TRUE)

\* register_user up to the hash of the password: the two 400 answers.
\* The requests are numbered in the order in which they arrive.
register_user_lookup(k, email, strong) ==
    /\ reg[k].pc = "idle"
    /\ \A j \in 1..(k - 1) : reg[j].pc # "idle"
    /\ reg' = [reg EXCEPT ![k] =
           IF UsersWithEmail(email) # {}
           THEN RegRequest("rejected", email, "Email already registered")
           ELSE IF ~strong
           THEN RegRequest("rejected", email, "password")
           ELSE RegRequest("looked_up", email, "")]
    /\ UNCHANGED << users, refresh_tokens, auth >>
    /\ UNCHANGED << labeling, rank, recommendation, scope, existence >>

register_user_insert_without_unique_index(k) ==
    /\ reg[k].pc = "looked_up"
    /\ users' = users \cup {UserRow(k, reg[k].email)}
    /\ reg' = [reg EXCEPT ![k].pc = "inserted"]
    /\ UNCHANGED << refresh_tokens, auth >>
    /\ UNCHANGED << labeling, rank, recommendation, scope, existence >>

\* db.add(user); db.commit(): the unique index on users.email fails the
\* commit of a second row with the email, and the IntegrityError escapes.
register_user_insert(k) ==
    /\ reg[k].pc = "looked_up"
    /\ IF UsersWithEmail(reg[k].email) # {}
       THEN /\ reg' = [reg EXCEPT ![k].pc = "raised",
                                  ![k].detail = "IntegrityError"]
            /\ users' = users
       ELSE /\ users' = users \cup {UserRow(k, reg[k].email)}
            /\ reg' = [reg EXCEPT ![k].pc = "inserted"]
    /\ UNCHANGED << refresh_tokens, auth >>
    /\ UNCHANGED << labeling, rank, recommendation, scope, existence >>

register_user_tokens(k) ==
    /\ reg[k].pc = "inserted"
    /\ create_user_tokens("register", k)
    /\ reg' = [reg EXCEPT ![k].pc = "done"]
    /\ users' = users
    /\ UNCHANGED << labeling, rank, recommendation, scope, existence >>

login_user(email, verified) ==
    /\ Cardinality(refresh_tokens) < MaxTokens
    /\ LET found == UsersWithEmail(email)
       IN  IF found = {} \/ ~verified
           THEN /\ auth' = AuthAnswer("login", 0, 0, FALSE)
                /\ refresh_tokens' = refresh_tokens
           ELSE LET user == CHOOSE u \in found : TRUE
                IN  IF ~user.is_active
                    THEN /\ auth' = AuthAnswer("login", user.id, 0, FALSE)
                         /\ refresh_tokens' = refresh_tokens
                    ELSE create_user_tokens("login", user.id)
    /\ UNCHANGED << users, reg >>
    /\ UNCHANGED << labeling, rank, recommendation, scope, existence >>

\* revoke_refresh_token(user_id) with no token_str: every row of the user.
revoke_refresh_token(user_id) ==
    refresh_tokens' =
        {IF t.user_id = user_id THEN [t EXCEPT !.is_revoked = TRUE] ELSE t :
             t \in refresh_tokens}

\* POST /auth/logout of the user the access token names.
logout(current_user) ==
    /\ \E u \in users : u.id = current_user /\ u.is_active
    /\ revoke_refresh_token(current_user)
    /\ auth' = AuthAnswer("logout", current_user, 0, FALSE)
    /\ UNCHANGED << users, reg >>
    /\ UNCHANGED << labeling, rank, recommendation, scope, existence >>

\* decode_token: a string the server has signed as a refresh token; 0 stands
\* for any other string.
decode_token(token) == {t \in refresh_tokens : t.token = token}

refresh_access_token_not_asking_revoked(refresh_token_str) ==
    /\ LET payload == decode_token(refresh_token_str)
           db_token == {t \in payload : t.is_active}
           user == {u \in users : \E t \in payload : u.id = t.user_id}
       IN  auth' =
               IF payload = {} \/ db_token = {} THEN
                   AuthAnswer("refresh", 0, refresh_token_str, FALSE)
               ELSE IF \A u \in user : ~u.is_active THEN
                   AuthAnswer("refresh", 0, refresh_token_str, FALSE)
               ELSE AuthAnswer("refresh", (CHOOSE u \in user : TRUE).id,
                               refresh_token_str, TRUE)
    /\ UNCHANGED << users, refresh_tokens, reg >>
    /\ UNCHANGED << labeling, rank, recommendation, scope, existence >>

refresh_access_token(refresh_token_str) ==
    /\ LET payload == decode_token(refresh_token_str)
           db_token == {t \in payload : t.is_active /\ ~t.is_revoked}
           user == {u \in users : \E t \in payload : u.id = t.user_id}
       IN  auth' =
               IF payload = {} \/ db_token = {} THEN
                   AuthAnswer("refresh", 0, refresh_token_str, FALSE)
               ELSE IF \A u \in user : ~u.is_active THEN
                   AuthAnswer("refresh", 0, refresh_token_str, FALSE)
               ELSE AuthAnswer("refresh", (CHOOSE u \in user : TRUE).id,
                               refresh_token_str, TRUE)
    /\ UNCHANGED << users, refresh_tokens, reg >>
    /\ UNCHANGED << labeling, rank, recommendation, scope, existence >>

NextAuth ==
    \/ \E k \in Registrations, email \in Emails, strong \in BOOLEAN :
           register_user_lookup(k, email, strong)
    \/ \E k \in Registrations : register_user_insert(k)
    \/ \E k \in Registrations : register_user_tokens(k)
    \/ \E email \in Emails, verified \in BOOLEAN : login_user(email, verified)
    \/ \E current_user \in Registrations : logout(current_user)
    \/ \E refresh_token_str \in 0..TokenBound :
           refresh_access_token(refresh_token_str)

SpecAuth == Init /\ [][NextAuth]_vars

\* The other users holding the email of the request k.
OthersWithEmail(k) == {u \in users : u.email = reg'[k].email /\ u.id # k}

\* C21: a register request whose email already belongs to a user is
\* rejected and leaves the users and the refresh tokens as they were, a
\* rejected request has neither a user nor a refresh token of its own, and
\* no two users have the same email.
C21_DuplicateEmailRejected ==
    /\ [](/\ \A u1 \in users, u2 \in users :
                 u1.email = u2.email => u1 = u2
          /\ \A k \in Registrations :
                 reg[k].pc \in {"rejected", "raised"} =>
                     /\ \A u \in users : u.id # k
                     /\ \A t \in refresh_tokens : t.user_id # k)
    /\ [][\A k \in Registrations :
              (reg'[k].pc # reg[k].pc /\ OthersWithEmail(k) # {}) =>
                  /\ reg'[k].pc \in {"rejected", "raised"}
                  /\ users' = users
                  /\ refresh_tokens' = refresh_tokens]_vars

C21_Witness ==
    \E k \in Registrations :
        /\ reg[k].pc = "rejected"
        /\ reg[k].detail = "Email already registered"
        /\ \E u \in users : u.email = reg[k].email /\ u.id # k
        /\ \E t \in refresh_tokens : t.user_id # k

Usable(token) ==
    \E t \in refresh_tokens :
        /\ t.token = token
        /\ t.is_active
        /\ ~t.is_revoked
        /\ \E u \in users : u.id = t.user_id /\ u.is_active

\* C29: a logout leaves every refresh token of the user revoked and the
\* rows of the other users as they were, a revoked row never changes again,
\* and refresh_access_token issues an access token exactly for a stored,
\* active, unrevoked token of an active user.
C29_LogoutRevokesOwnTokensOnly ==
    /\ [](/\ auth.op = "logout" =>
                 \A t \in refresh_tokens :
                     t.user_id = auth.user => t.is_revoked
          /\ auth.op = "refresh" => (auth.issued <=> Usable(auth.token)))
    /\ [][/\ auth'.op = "logout" =>
                 \A t \in refresh_tokens :
                     t.user_id # auth'.user => t \in refresh_tokens'
          /\ \A t \in refresh_tokens :
                 t.is_revoked => t \in refresh_tokens']_vars

C29_Witness ==
    /\ auth.op = "refresh"
    /\ ~auth.issued
    /\ \E t \in refresh_tokens :
           /\ t.token = auth.token
           /\ t.is_revoked
           /\ \E o \in refresh_tokens :
                  o.user_id # t.user_id /\ ~o.is_revoked

====
